---- MODULE Spec2Model ----
(***************************************************************************)
(* The table block editor of the note page (TableBlock in page.tsx): a     *)
(* grid of cells with merge/split, rectangle selection, TSV copy/paste,    *)
(* drag-move and proportional resize.                                      *)
(*                                                                         *)
(* Rows and columns are numbered from 0 as in the source; a TLA+ sequence  *)
(* is indexed from 1, so cell (r,c) of table t is t.cells[r+1][c+1].       *)
(***************************************************************************)
EXTENDS Integers, Sequences, FiniteSets, TLC

VARIABLES
  table,        \* the TableData prop of the block (owned by the note)
  selection,    \* useState<TableSelection | null>
  clipboard,    \* the text of the system clipboard
  pasting,      \* onPaste calls suspended at `await readText()`
  resizeStart,  \* resizeStartRef.current
  dragStart,    \* dragStartRef.current
  listeners,    \* window pointermove/pointerup listener pairs, in registration order
  last,         \* the last event handled: its handler, whether it threw, and
                \* whether it called onChange
  home,         \* Home: the tables of the active note and the state of its
                \* table blocks (SpecNote; null where one block is modelled alone)
  steps         \* number of events handled so far (bounds the explored histories)

vars == <<table, selection, clipboard, pasting, resizeStart, dragStart, listeners,
          last, home, steps>>

\* ---------------------------------------------------------------- bounds
MaxRows == 4          \* addRow is explored up to this many rows
MaxCols == 4          \* addCol is explored up to this many columns
MaxSteps == 5         \* events per explored history of Spec

\* ------------------------------------------------------ program constants
InitRows == 4
InitCols == 4
InitX == 120
InitY == 120
DefaultColWidth == 120
DefaultRowHeight == 42

\* the handler op returned without calling onChange / threw a TypeError /
\* called onChange and returned
Did(op) == [op |-> op, threw |-> FALSE, emitted |-> FALSE]
Threw(op) == [op |-> op, threw |-> TRUE, emitted |-> FALSE]
Emit(op) == [op |-> op, threw |-> FALSE, emitted |-> TRUE]

\* the JavaScript null of an unset state or ref
Null == [null |-> TRUE]

\* ------------------------------------------------------------ data model
createCell == [value |-> <<>>, rowSpan |-> 1, colSpan |-> 1, hidden |-> FALSE]

createTable ==
  [ id         |-> "t1",
    x          |-> InitX,
    y          |-> InitY,
    colWidths  |-> [c \in 1..InitCols |-> DefaultColWidth],
    rowHeights |-> [r \in 1..InitRows |-> DefaultRowHeight],
    cells      |-> [r \in 1..InitRows |-> [c \in 1..InitCols |-> createCell]] ]

NumRows(t) == Len(t.cells)
NumCols(t) == Len(t.colWidths)

\* cells[r]?.[c] is defined
InGrid(t, r, c) ==
  /\ r >= 0 /\ r < Len(t.cells)
  /\ c >= 0 /\ c < Len(t.cells[r + 1])

At(t, r, c) == t.cells[r + 1][c + 1]

\* a <td> exists for (r,c): hidden cells render nothing
Rendered(t, r, c) == InGrid(t, r, c) /\ ~At(t, r, c).hidden

Min(a, b) == IF a <= b THEN a ELSE b
Max(a, b) == IF a >= b THEN a ELSE b

\* the top of the rectangle taken to be the row of the anchor
minRow_Anchor(s) == s.startRow

minRow(s) == Min(s.startRow, s.endRow)
maxRow(s) == Max(s.startRow, s.endRow)
minCol(s) == Min(s.startCol, s.endCol)
maxCol(s) == Max(s.startCol, s.endCol)

Rect(r0, r1, c0, c1) == (r0..r1) \X (c0..c1)

\* the first element of a non-empty set of coordinates in row-major order
FirstInScan(S) ==
  CHOOSE p \in S : \A q \in S : p[1] < q[1] \/ (p[1] = q[1] /\ p[2] <= q[2])

\* ------------------------------------------------------------- selection
\* td onMouseDown
Press(r, c) ==
  /\ Rendered(table, r, c)
  /\ selection' = [startRow |-> r, startCol |-> c, endRow |-> r, endCol |-> c]
  /\ last' = Did("Press")
  /\ UNCHANGED <<table, clipboard, pasting, resizeStart, dragStart, listeners>>

\* event.buttons: none, the primary button, the primary and the secondary button
Buttons == {0, 1, 3}

\* an onMouseEnter that extends the selection while any button is held
Enter_AnyButton(r, c, buttons) ==
  /\ Rendered(table, r, c)
  /\ selection' = IF selection = Null \/ buttons = 0
                  THEN selection
                  ELSE [selection EXCEPT !.endRow = r, !.endCol = c]
  /\ last' = Did("Enter")
  /\ UNCHANGED <<table, clipboard, pasting, resizeStart, dragStart, listeners>>

\* td onMouseEnter; buttons is event.buttons
Enter(r, c, buttons) ==
  /\ Rendered(table, r, c)
  /\ selection' = IF selection = Null \/ buttons # 1
                  THEN selection
                  ELSE [selection EXCEPT !.endRow = r, !.endCol = c]
  /\ last' = Did("Enter")
  /\ UNCHANGED <<table, clipboard, pasting, resizeStart, dragStart, listeners>>

\* ----------------------------------------------------------- merge/split
\* a scan that stops at missing cells only
MergeScan_MissingOnly(t, s) ==
  IF \E p \in Rect(minRow(s), maxRow(s), minCol(s), maxCol(s)) : ~InGrid(t, p[1], p[2])
  THEN "throw" ELSE "ok"

\* outcome of the hidden-cell scan of mergeSelected: the scan stops at the
\* first cell, in row-major order, that is hidden (return) or missing (TypeError)
MergeScan(t, s) ==
  LET bad == {p \in Rect(minRow(s), maxRow(s), minCol(s), maxCol(s)) :
                ~InGrid(t, p[1], p[2]) \/ At(t, p[1], p[2]).hidden}
  IN  IF bad = {} THEN "ok"
      ELSE LET p == FirstInScan(bad)
           IN  IF InGrid(t, p[1], p[2]) THEN "hidden" ELSE "throw"

\* a merge that resets the spans of the cells it hides
MergeCells_ResetSpans(t, s) ==
  [r \in 1..Len(t.cells) |->
    [c \in 1..Len(t.cells[r]) |->
      IF r - 1 = minRow(s) /\ c - 1 = minCol(s)
      THEN [t.cells[r][c] EXCEPT !.rowSpan = maxRow(s) - minRow(s) + 1,
                                 !.colSpan = maxCol(s) - minCol(s) + 1]
      ELSE IF <<r - 1, c - 1>> \in Rect(minRow(s), maxRow(s), minCol(s), maxCol(s))
      THEN [t.cells[r][c] EXCEPT !.hidden = TRUE, !.rowSpan = 1, !.colSpan = 1]
      ELSE t.cells[r][c]]]

MergeCells(t, s) ==
  [r \in 1..Len(t.cells) |->
    [c \in 1..Len(t.cells[r]) |->
      IF r - 1 = minRow(s) /\ c - 1 = minCol(s)
      THEN [t.cells[r][c] EXCEPT !.rowSpan = maxRow(s) - minRow(s) + 1,
                                 !.colSpan = maxCol(s) - minCol(s) + 1]
      ELSE IF <<r - 1, c - 1>> \in Rect(minRow(s), maxRow(s), minCol(s), maxCol(s))
      THEN [t.cells[r][c] EXCEPT !.hidden = TRUE]
      ELSE t.cells[r][c]]]

\* the table mergeSelected passes to onChange, or t when it returns early or throws
MergeResult(t, s) ==
  IF s = Null \/ (minRow(s) = maxRow(s) /\ minCol(s) = maxCol(s)) THEN t
  ELSE IF MergeScan(t, s) # "ok" THEN t
  ELSE [t EXCEPT !.cells = MergeCells(t, s)]

MergeThrows(t, s) ==
  /\ s # Null
  /\ ~(minRow(s) = maxRow(s) /\ minCol(s) = maxCol(s))
  /\ MergeScan(t, s) = "throw"

\* mergeSelected reaches its onChange(next)
MergeEmits(t, s) ==
  /\ s # Null
  /\ ~(minRow(s) = maxRow(s) /\ minCol(s) = maxCol(s))
  /\ MergeScan(t, s) = "ok"

mergeSelected ==
  /\ table' = MergeResult(table, selection)
  /\ last' = IF MergeThrows(table, selection) THEN Threw("mergeSelected")
             ELSE IF MergeEmits(table, selection) THEN Emit("mergeSelected")
             ELSE Did("mergeSelected")
  /\ UNCHANGED <<selection, clipboard, pasting, resizeStart, dragStart, listeners>>

\* splitSelected throws when the anchor cell is missing, or when a cell of the
\* rectangle given by the anchor cell's spans is missing
SplitThrows(t, s) ==
  \/ ~InGrid(t, s.startRow, s.startCol)
  \/ LET root == At(t, s.startRow, s.startCol)
     IN  /\ ~(root.rowSpan = 1 /\ root.colSpan = 1)
         /\ \E p \in Rect(s.startRow, s.startRow + root.rowSpan - 1,
                          s.startCol, s.startCol + root.colSpan - 1) :
              ~InGrid(t, p[1], p[2])

SplitCells(t, s) ==
  LET root == At(t, s.startRow, s.startCol)
  IN  [r \in 1..Len(t.cells) |->
        [c \in 1..Len(t.cells[r]) |->
          IF <<r - 1, c - 1>> \in Rect(s.startRow, s.startRow + root.rowSpan - 1,
                                       s.startCol, s.startCol + root.colSpan - 1)
          THEN [t.cells[r][c] EXCEPT !.hidden = FALSE, !.rowSpan = 1, !.colSpan = 1]
          ELSE t.cells[r][c]]]

\* the table splitSelected passes to onChange, or t when it returns early or throws
SplitResult(t, s) ==
  IF s = Null THEN t
  ELSE IF SplitThrows(t, s) THEN t
  ELSE IF At(t, s.startRow, s.startCol).rowSpan = 1 /\ At(t, s.startRow, s.startCol).colSpan = 1
  THEN t
  ELSE [t EXCEPT !.cells = SplitCells(t, s)]

\* splitSelected reaches its onChange(next)
SplitEmits(t, s) ==
  /\ s # Null
  /\ ~SplitThrows(t, s)
  /\ ~(At(t, s.startRow, s.startCol).rowSpan = 1 /\ At(t, s.startRow, s.startCol).colSpan = 1)

splitSelected ==
  /\ table' = SplitResult(table, selection)
  /\ last' = IF selection # Null /\ SplitThrows(table, selection) THEN Threw("splitSelected")
             ELSE IF SplitEmits(table, selection) THEN Emit("splitSelected")
             ELSE Did("splitSelected")
  /\ UNCHANGED <<selection, clipboard, pasting, resizeStart, dragStart, listeners>>

\* ------------------------------------------------------------ grid shape
\* addRow that builds every row anew
AddRowTo_Recreate(t) ==
  [t EXCEPT !.cells = [r \in 1..(Len(t.cells) + 1) |-> [c \in 1..Len(t.colWidths) |-> createCell]],
            !.rowHeights = Append(@, DefaultRowHeight)]

AddRowTo(t) ==
  [t EXCEPT !.cells = Append(@, [c \in 1..Len(t.colWidths) |-> createCell]),
            !.rowHeights = Append(@, DefaultRowHeight)]

\* addCol that extends the first row only
AddColTo_FirstRowOnly(t) ==
  [t EXCEPT !.cells = [r \in 1..Len(t.cells) |->
                         IF r = 1 THEN Append(t.cells[r], createCell) ELSE t.cells[r]],
            !.colWidths = Append(@, DefaultColWidth)]

AddColTo(t) ==
  [t EXCEPT !.cells = [r \in 1..Len(t.cells) |-> Append(t.cells[r], createCell)],
            !.colWidths = Append(@, DefaultColWidth)]

Pop(q) == IF Len(q) = 0 THEN q ELSE SubSeq(q, 1, Len(q) - 1)

\* removeRow that also trims the rowSpan of the regions it truncates
RemoveRowFrom_Trim(t) ==
  IF Len(t.cells) <= 1 THEN t
  ELSE [t EXCEPT !.cells = [r \in 1..(Len(t.cells) - 1) |->
                              [c \in 1..Len(t.cells[r]) |->
                                 [t.cells[r][c] EXCEPT
                                    !.rowSpan = Min(@, Len(t.cells) - r)]]],
                 !.rowHeights = Pop(@)]

RemoveRowFrom(t) ==
  IF Len(t.cells) <= 1 THEN t
  ELSE [t EXCEPT !.cells = Pop(@), !.rowHeights = Pop(@)]

\* removeCol whose guard lets the last column go
RemoveColFrom_BelowOne(t) ==
  IF Len(t.colWidths) < 1 THEN t
  ELSE [t EXCEPT !.cells = [r \in 1..Len(t.cells) |-> Pop(t.cells[r])],
                 !.colWidths = Pop(@)]

RemoveColFrom(t) ==
  IF Len(t.colWidths) <= 1 THEN t
  ELSE [t EXCEPT !.cells = [r \in 1..Len(t.cells) |-> Pop(t.cells[r])],
                 !.colWidths = Pop(@)]

addRow ==
  /\ NumRows(table) < MaxRows
  /\ table' = AddRowTo(table)
  /\ last' = Emit("addRow")
  /\ UNCHANGED <<selection, clipboard, pasting, resizeStart, dragStart, listeners>>

addCol ==
  /\ NumCols(table) < MaxCols
  /\ table' = AddColTo(table)
  /\ last' = Emit("addCol")
  /\ UNCHANGED <<selection, clipboard, pasting, resizeStart, dragStart, listeners>>

removeRow ==
  /\ table' = RemoveRowFrom(table)
  /\ last' = IF Len(table.cells) <= 1 THEN Did("removeRow") ELSE Emit("removeRow")
  /\ UNCHANGED <<selection, clipboard, pasting, resizeStart, dragStart, listeners>>

removeCol ==
  /\ table' = RemoveColFrom(table)
  /\ last' = IF Len(table.colWidths) <= 1 THEN Did("removeCol") ELSE Emit("removeCol")
  /\ UNCHANGED <<selection, clipboard, pasting, resizeStart, dragStart, listeners>>

\* --------------------------------------------------------------- editing
\* the strings typed into a <textarea>: sequences of characters
Chars == {"a", "\t", "\n"}
MaxValueLen == 1
CellValues == UNION {[1..n -> Chars] : n \in 0..MaxValueLen}

\* textarea onChange -> setCellValue(rowIndex, colIndex, event.target.value)
setCellValue(r, c, v) ==
  /\ Rendered(table, r, c)
  /\ table' = [table EXCEPT !.cells[r + 1][c + 1].value = v]
  /\ last' = Emit("setCellValue")
  /\ UNCHANGED <<selection, clipboard, pasting, resizeStart, dragStart, listeners>>

\* ------------------------------------------------------------- clipboard
RECURSIVE Join(_, _)
\* Array.prototype.join of a sequence of strings
Join(parts, sep) ==
  IF Len(parts) = 0 THEN <<>>
  ELSE IF Len(parts) = 1 THEN parts[1]
  ELSE parts[1] \o <<sep>> \o Join(Tail(parts), sep)

RECURSIVE Split(_, _)
\* String.prototype.split on a one-character separator ("" splits to [""])
Split(text, sep) ==
  IF \A i \in 1..Len(text) : text[i] # sep THEN <<text>>
  ELSE LET k == CHOOSE i \in 1..Len(text) :
                  text[i] = sep /\ \A j \in 1..(i - 1) : text[j] # sep
       IN  <<SubSeq(text, 1, k - 1)>> \o Split(SubSeq(text, k + 1, Len(text)), sep)

\* onCopy reads table.cells[minRow + rOff][minCol + cOff].hidden for every cell
\* of the rectangle
CopyThrows(t, s) ==
  \E p \in Rect(minRow(s), maxRow(s), minCol(s), maxCol(s)) : ~InGrid(t, p[1], p[2])

\* a copy that reads hidden cells as it reads the others
CopyText_RawHidden(t, s) ==
  Join([rOff \in 1..(maxRow(s) - minRow(s) + 1) |->
         Join([cOff \in 1..(maxCol(s) - minCol(s) + 1) |->
                At(t, minRow(s) + rOff - 1, minCol(s) + cOff - 1).value], "\t")], "\n")

CopyText(t, s) ==
  Join([rOff \in 1..(maxRow(s) - minRow(s) + 1) |->
         Join([cOff \in 1..(maxCol(s) - minCol(s) + 1) |->
                LET cell == At(t, minRow(s) + rOff - 1, minCol(s) + cOff - 1)
                IN  IF cell.hidden THEN <<>> ELSE cell.value], "\t")], "\n")

\* ok: navigator.clipboard.writeText resolves (it rejects without permission)
onCopy(ok) ==
  /\ IF selection = Null
     THEN UNCHANGED clipboard /\ last' = Did("onCopy")
     ELSE IF CopyThrows(table, selection)
     THEN UNCHANGED clipboard /\ last' = Threw("onCopy")
     ELSE /\ clipboard' = IF ok THEN CopyText(table, selection) ELSE clipboard
          /\ last' = Did("onCopy")
  /\ UNCHANGED <<table, selection, pasting, resizeStart, dragStart, listeners>>

\* a paste that writes hidden cells too
PasteInto_OverHidden(t, s, pasted) ==
  LET lines == [i \in 1..Len(Split(pasted, "\n")) |-> Split(Split(pasted, "\n")[i], "\t")]
  IN  [t EXCEPT !.cells =
        [r \in 1..Len(t.cells) |->
          [c \in 1..Len(t.cells[r]) |->
            LET rOff == r - 1 - s.startRow
                cOff == c - 1 - s.startCol
            IN  IF /\ rOff >= 0 /\ rOff < Len(lines)
                   /\ cOff >= 0 /\ cOff < Len(lines[rOff + 1])
                THEN [t.cells[r][c] EXCEPT !.value = lines[rOff + 1][cOff + 1]]
                ELSE t.cells[r][c]]]]

\* the body of onPaste after the await, on the table and selection of the
\* render in which the button was clicked
PasteInto(t, s, pasted) ==
  LET lines == [i \in 1..Len(Split(pasted, "\n")) |-> Split(Split(pasted, "\n")[i], "\t")]
  IN  [t EXCEPT !.cells =
        [r \in 1..Len(t.cells) |->
          [c \in 1..Len(t.cells[r]) |->
            LET rOff == r - 1 - s.startRow
                cOff == c - 1 - s.startCol
            IN  IF /\ rOff >= 0 /\ rOff < Len(lines)
                   /\ cOff >= 0 /\ cOff < Len(lines[rOff + 1])
                   /\ ~t.cells[r][c].hidden
                THEN [t.cells[r][c] EXCEPT !.value = lines[rOff + 1][cOff + 1]]
                ELSE t.cells[r][c]]]]

\* the table onPaste passes to onChange, or the current table cur when it
\* returns early on an empty clipboard
PasteResult(cur, t, s, pasted) ==
  IF pasted = <<>> THEN cur ELSE PasteInto(t, s, pasted)

MaxPasting == 1       \* onPaste calls awaiting the clipboard at once

\* onPaste up to `await navigator.clipboard.readText()`
onPasteClick ==
  /\ Len(pasting) < MaxPasting
  /\ pasting' = IF selection = Null THEN pasting
                ELSE Append(pasting, [tbl |-> table, sel |-> selection])
  /\ last' = Did("onPasteClick")
  /\ UNCHANGED <<table, selection, clipboard, resizeStart, dragStart, listeners>>

\* onPaste from the resolution of readText on; ok: readText resolves
onPasteDone(i, ok) ==
  /\ i \in 1..Len(pasting)
  /\ pasting' = [j \in 1..(Len(pasting) - 1) |-> IF j < i THEN pasting[j] ELSE pasting[j + 1]]
  /\ table' = IF ~ok THEN table
              ELSE PasteResult(table, pasting[i].tbl, pasting[i].sel, clipboard)
  /\ last' = IF ok /\ clipboard # <<>> THEN Emit("onPasteDone") ELSE Did("onPasteDone")
  /\ UNCHANGED <<selection, clipboard, resizeStart, dragStart, listeners>>

\* -------------------------------------------------------------- gestures
MinTableWidth == 240
MinTableHeight == 120
MinColWidth == 80
MinRowHeight == 34

RECURSIVE Sum(_)
\* reduce((acc, cur) => acc + cur, 0)
Sum(q) == IF Len(q) = 0 THEN 0 ELSE q[1] + Sum(Tail(q))

\* w * (num / den) lies exactly halfway between two integers
Tie(w, num, den) == (2 * w * num) % (2 * den) = den

RECURSIVE Log2Floor(_, _)
\* the exponent a of the double nearest to n / d: 2^a <= n / d < 2^(a + 1)
Log2Floor(n, d) ==
  IF n < d THEN Log2Floor(2 * n, d) - 1
  ELSE IF n >= 2 * d THEN Log2Floor(n, 2 * d) + 1
  ELSE 0

RECURSIVE ShiftMod(_, _, _)
\* (n * 2^k) % d: the remainder of the long division n / d after k binary places
ShiftMod(n, k, d) == IF k = 0 THEN n % d ELSE ShiftMod(2 * (n % d), k - 1, d)

RECURSIVE Pow2(_)
Pow2(k) == IF k = 0 THEN 1 ELSE 2 * Pow2(k - 1)

\* the double num / den is below the quotient: its 53-bit significand is the
\* quotient rounded to nearest, ties to even, and the rounding went down
QuotientBelow(num, den) ==
  LET k == 52 - Log2Floor(num, den)
      r == ShiftMod(num, k, den)
  IN  /\ r # 0
      /\ \/ 2 * r < den
         \/ 2 * r = den /\ 2 * ShiftMod(num, k - 1, den) < den

\* at a tie, the double w * (num / den) is below the tie: the ratio is below
\* the quotient by r / den units of its last place, and w times that is more
\* than half a unit of the last place of the tie
ProductBelow(w, num, den) ==
  LET a == Log2Floor(num, den)
      r == ShiftMod(num, 52 - a, den)
      half == 2 * ((w * num) \div den) + 1
      s == a - Log2Floor(half, 2) + 1 + (IF half = 1 THEN 1 ELSE 0)
  IN  /\ QuotientBelow(num, den)
      /\ IF s >= 0 THEN w * r * Pow2(s) > den ELSE w * r > den * Pow2(0 - s)

\* a scaling that drops the fraction
RoundScale_Truncate(w, num, den) == (w * num) \div den

\* Math.round(w * (num / den)) for positive integers, in double precision: off
\* a tie the product rounds to the nearest integer; at a tie Math.round goes
\* up unless the product computed is below the tie
RoundScale(w, num, den) ==
  IF Tie(w, num, den) /\ ProductBelow(w, num, den)
  THEN (w * num) \div den
  ELSE (2 * w * num + den) \div (2 * den)

\* moveTable without the Math.max
moveTable_NoClamp(t, left, top) == [t EXCEPT !.x = left, !.y = top]

\* moveTable of the render that saw table t
moveTable(t, left, top) == [t EXCEPT !.x = Max(0, left), !.y = Max(0, top)]

safeWidth(nextWidth) == Max(MinTableWidth, nextWidth)
safeHeight(nextHeight) == Max(MinTableHeight, nextHeight)

\* resizeTable without the per-column and per-row floors
resizeTable_NoFloor(t, nextWidth, nextHeight) ==
  [t EXCEPT
    !.colWidths  = [i \in 1..Len(t.colWidths) |->
                      RoundScale(t.colWidths[i], safeWidth(nextWidth), Sum(t.colWidths))],
    !.rowHeights = [j \in 1..Len(t.rowHeights) |->
                      RoundScale(t.rowHeights[j], safeHeight(nextHeight), Sum(t.rowHeights))]]

\* resizeTable of the render that saw table t
resizeTable(t, nextWidth, nextHeight) ==
  LET tableWidth  == Sum(t.colWidths)
      tableHeight == Sum(t.rowHeights)
  IN  [t EXCEPT
        !.colWidths  = [i \in 1..Len(t.colWidths) |->
                          Max(MinColWidth, RoundScale(t.colWidths[i], safeWidth(nextWidth),
                                                      tableWidth))],
        !.rowHeights = [j \in 1..Len(t.rowHeights) |->
                          Max(MinRowHeight, RoundScale(t.rowHeights[j], safeHeight(nextHeight),
                                                       tableHeight))]]

MaxListeners == 2     \* gestures started without a pointerup in between

\* pointer positions (clientX, clientY) of the explored pointer events
Pointer == {<<0, 0>>, <<14, 9>>, <<300, 100>>}

\* drag handle onPointerDown: the listeners close over the table of this render
dragDown(p) ==
  /\ Len(listeners) < MaxListeners
  /\ dragStart' = [x |-> p[1], y |-> p[2], left |-> table.x, top |-> table.y]
  /\ listeners' = Append(listeners, [kind |-> "drag", tbl |-> table])
  /\ last' = Did("dragDown")
  /\ UNCHANGED <<table, selection, clipboard, pasting, resizeStart>>

\* resize handle onPointerDown
resizeDown(p) ==
  /\ Len(listeners) < MaxListeners
  /\ resizeStart' = [x |-> p[1], y |-> p[2],
                     width |-> Sum(table.colWidths), height |-> Sum(table.rowHeights)]
  /\ listeners' = Append(listeners, [kind |-> "resize", tbl |-> table])
  /\ last' = Did("resizeDown")
  /\ UNCHANGED <<table, selection, clipboard, pasting, dragStart>>

\* the onMove of listener l calls onChange (its ref is set)
Emits(l) == IF l.kind = "drag" THEN dragStart # Null ELSE resizeStart # Null

\* the listener whose onChange is the last of a pointermove event, or 0: the
\* onMove listeners run in registration order and every onChange replaces the
\* table of the note, so the last one decides the table
LastEmitting(ls) ==
  IF \E i \in 1..Len(ls) : Emits(ls[i])
  THEN CHOOSE i \in 1..Len(ls) : Emits(ls[i]) /\ \A j \in (i + 1)..Len(ls) : ~Emits(ls[j])
  ELSE 0

\* the table the onMove of listener l passes to onChange for a pointermove at p
Emitted(l, p) ==
  IF l.kind = "drag"
  THEN {moveTable(l.tbl, dragStart.left + (p[1] - dragStart.x),
                         dragStart.top + (p[2] - dragStart.y))}
  ELSE LET nextWidth  == resizeStart.width + (p[1] - resizeStart.x)
           nextHeight == resizeStart.height + (p[2] - resizeStart.y)
       IN  {resizeTable(l.tbl, nextWidth, nextHeight)}

\* a pointermove event on window: with no listener registered no handler of
\* the block runs
pointerMove(p) ==
  /\ IF LastEmitting(listeners) = 0 THEN UNCHANGED table
     ELSE table' \in Emitted(listeners[LastEmitting(listeners)], p)
  /\ last' = IF LastEmitting(listeners) = 0 THEN Did("pointerMove")
             ELSE IF listeners[LastEmitting(listeners)].kind = "drag" THEN Emit("dragMove")
             ELSE Emit("resizeMove")
  /\ UNCHANGED <<selection, clipboard, pasting, resizeStart, dragStart, listeners>>

\* a pointerup that runs the onUp of the gesture started last only
pointerUp_LastOnly ==
  /\ Len(listeners) > 0
  /\ dragStart' = IF listeners[Len(listeners)].kind = "drag" THEN Null ELSE dragStart
  /\ resizeStart' = IF listeners[Len(listeners)].kind = "resize" THEN Null ELSE resizeStart
  /\ listeners' = SubSeq(listeners, 1, Len(listeners) - 1)
  /\ last' = Did("pointerUp")
  /\ UNCHANGED <<table, selection, clipboard, pasting>>

\* a pointerup event on window: every registered onUp runs
pointerUp ==
  /\ Len(listeners) > 0
  /\ dragStart' = IF \E i \in 1..Len(listeners) : listeners[i].kind = "drag"
                  THEN Null ELSE dragStart
  /\ resizeStart' = IF \E i \in 1..Len(listeners) : listeners[i].kind = "resize"
                    THEN Null ELSE resizeStart
  /\ listeners' = <<>>
  /\ last' = Did("pointerUp")
  /\ UNCHANGED <<table, selection, clipboard, pasting>>

\* ---------------------------------------------------------- specifications
InitRest ==
  /\ selection = Null
  /\ clipboard = <<>>
  /\ pasting = <<>>
  /\ resizeStart = Null
  /\ dragStart = Null
  /\ listeners = <<>>
  /\ last = Did("init")
  /\ home = Null
  /\ steps = 0

\* Spec: selection, merge/split and grid shape, from the default table
Init == table = createTable /\ InitRest

Next ==
  /\ steps < MaxSteps
  /\ steps' = steps + 1
  /\ UNCHANGED home
  /\ \/ \E r \in 0..(MaxRows - 1), c \in 0..(MaxCols - 1) : Press(r, c)
     \/ \E r \in 0..(MaxRows - 1), c \in 0..(MaxCols - 1), b \in Buttons : Enter(r, c, b)
     \/ mergeSelected
     \/ splitSelected
     \/ addRow
     \/ addCol
     \/ removeRow
     \/ removeCol

Spec == Init /\ [][Next]_vars

\* SpecClip: the same operations with cell edits, copy and paste, on the
\* default table cut down to ClipRows x ClipCols by removeRow and removeCol
ClipRows == 2
ClipCols == 2
MaxClipSteps == 5

RECURSIVE ShrinkTo(_, _, _)
ShrinkTo(t, rows, cols) ==
  IF NumRows(t) > rows /\ NumRows(t) > 1 THEN ShrinkTo(RemoveRowFrom(t), rows, cols)
  ELSE IF NumCols(t) > cols /\ NumCols(t) > 1 THEN ShrinkTo(RemoveColFrom(t), rows, cols)
  ELSE t

InitClip == table = ShrinkTo(createTable, ClipRows, ClipCols) /\ InitRest

NextClip ==
  /\ steps < MaxClipSteps
  /\ steps' = steps + 1
  /\ UNCHANGED home
  /\ \/ \E r \in 0..(MaxRows - 1), c \in 0..(MaxCols - 1) : Press(r, c)
     \/ \E r \in 0..(MaxRows - 1), c \in 0..(MaxCols - 1), b \in Buttons : Enter(r, c, b)
     \/ \E r \in 0..(MaxRows - 1), c \in 0..(MaxCols - 1), v \in CellValues :
          setCellValue(r, c, v)
     \/ \E ok \in BOOLEAN : onCopy(ok)
     \/ onPasteClick
     \/ \E i \in 1..MaxPasting, ok \in BOOLEAN : onPasteDone(i, ok)
     \/ mergeSelected
     \/ splitSelected
     \/ addRow
     \/ addCol
     \/ removeRow
     \/ removeCol

SpecClip == InitClip /\ [][NextClip]_vars

\* SpecResize: resize gestures with grid shape changes, from the default table
MaxResizeSteps == 7

NextResize ==
  /\ steps < MaxResizeSteps
  /\ steps' = steps + 1
  /\ UNCHANGED home
  /\ \/ \E p \in Pointer : resizeDown(p)
     \/ \E p \in Pointer : pointerMove(p)
     \/ pointerUp
     \/ addRow
     \/ addCol
     \/ removeRow
     \/ removeCol

SpecResize == Init /\ [][NextResize]_vars

\* SpecGesture: drag and resize gestures, from the default table
MaxGestureSteps == 7

NextGesture ==
  /\ steps < MaxGestureSteps
  /\ steps' = steps + 1
  /\ UNCHANGED home
  /\ \/ \E p \in Pointer : dragDown(p)
     \/ \E p \in Pointer : resizeDown(p)
     \/ \E p \in Pointer : pointerMove(p)
     \/ pointerUp

SpecGesture == Init /\ [][NextGesture]_vars

\* SpecPaste: selection, merge/split, grid shape, copy and paste on tables
\* that earlier events of the session produced, with what another
\* application left on the system clipboard
MaxPasteSteps == 3

\* the default table after removeRow and removeCol (base) and
\*  - typed: base after setCellValue on (0,0) and (0,1);
\*  - typed after mergeSelected on (0,0)..(0,1);
\*  - typed after mergeSelected on (1,0)..(1,1), removeCol and addCol;
\*  - base after a resize gesture
PasteTables ==
  LET base == ShrinkTo(createTable, ClipRows, ClipCols)
      typed == [base EXCEPT !.cells[1][1].value = <<"a">>, !.cells[1][2].value = <<"a">>]
  IN  {typed,
       MergeResult(typed, [startRow |-> 0, startCol |-> 0, endRow |-> 0, endCol |-> 1]),
       AddColTo(RemoveColFrom(
         MergeResult(typed, [startRow |-> 1, startCol |-> 0, endRow |-> 1, endCol |-> 1]))),
       resizeTable(base, 300, 150)}

\* texts navigator.clipboard.readText() can return before any copy: nothing,
\* and a block of two lines of two fields
PasteTexts == {<<>>, <<"b", "\t", "b", "\n", "b", "\t", "b">>}

\* no selection yet; a press on (1,0) dragged up to (0,0); a press on (0,0)
\* dragged to (1,1): all four cells are rendered in every table of PasteTables
PasteSelections ==
  {Null,
   [startRow |-> 1, startCol |-> 0, endRow |-> 0, endCol |-> 0],
   [startRow |-> 0, startCol |-> 0, endRow |-> 1, endCol |-> 1]}

InitPaste ==
  /\ table \in PasteTables
  /\ selection \in PasteSelections
  /\ clipboard \in PasteTexts
  /\ pasting = <<>>
  /\ resizeStart = Null
  /\ dragStart = Null
  /\ listeners = <<>>
  /\ last = Did("init")
  /\ home = Null
  /\ steps = 0

NextPaste ==
  /\ steps < MaxPasteSteps
  /\ steps' = steps + 1
  /\ UNCHANGED home
  /\ \/ \E r \in 0..(MaxRows - 1), c \in 0..(MaxCols - 1) : Press(r, c)
     \/ \E r \in 0..(MaxRows - 1), c \in 0..(MaxCols - 1), b \in Buttons : Enter(r, c, b)
     \/ \E ok \in BOOLEAN : onCopy(ok)
     \/ onPasteClick
     \/ \E i \in 1..MaxPasting, ok \in BOOLEAN : onPasteDone(i, ok)
     \/ mergeSelected
     \/ splitSelected
     \/ addRow
     \/ addCol
     \/ removeRow
     \/ removeCol

SpecPaste == InitPaste /\ [][NextPaste]_vars

\* SpecNote: Home with the table blocks of the active note. Every block has
\* its own selection and dragStartRef; the window listeners of a gesture and
\* a suspended onPaste keep the props of the render that created them: the
\* table of their block and, through onChange, the tables of activeNote
MaxTables == 2
MaxNoteSteps == 6

\* the ids makeId returns for the tables of the note, in creation order
TableIds == <<"t1", "t2", "t3">>

Ids(ts) == {ts[i].id : i \in 1..Len(ts)}

\* the entry of the tables list ts with this id
TableOf(ts, tableId) == ts[CHOOSE i \in 1..Len(ts) : ts[i].id = tableId]

\* the tables updateTable passes to updateNote, from the tables ts of the
\* activeNote it closed over
updateTable(ts, tableId, next) ==
  [i \in 1..Len(ts) |-> IF ts[i].id = tableId THEN next ELSE ts[i]]

\* the toolbar button that adds a table
addTableToActive ==
  /\ Len(home.tables) < MaxTables
  /\ home' = [home EXCEPT
                !.tables = Append(@, [createTable EXCEPT !.id = TableIds[Len(home.tables) + 1]])]
  /\ last' = Did("addTableToActive")
  /\ UNCHANGED clipboard

\* td onMouseDown in the block of table id
BlockPress(id, r, c) ==
  /\ id \in Ids(home.tables)
  /\ Rendered(TableOf(home.tables, id), r, c)
  /\ home' = [home EXCEPT !.selection[id] =
                [startRow |-> r, startCol |-> c, endRow |-> r, endCol |-> c]]
  /\ last' = Did("BlockPress")
  /\ UNCHANGED clipboard

\* removeRow in the block of table id, through onChange = updateTable(id, ..)
BlockRemoveRow(id) ==
  /\ id \in Ids(home.tables)
  /\ home' = IF NumRows(TableOf(home.tables, id)) <= 1 THEN home
             ELSE [home EXCEPT !.tables =
                     updateTable(home.tables, id, RemoveRowFrom(TableOf(home.tables, id)))]
  /\ last' = IF NumRows(TableOf(home.tables, id)) <= 1 THEN Did("BlockRemoveRow")
             ELSE Emit("BlockRemoveRow")
  /\ UNCHANGED clipboard

\* onPaste in the block of table id up to `await navigator.clipboard.readText()`
BlockPasteClick(id) ==
  /\ id \in Ids(home.tables)
  /\ Len(home.pasting) < MaxPasting
  /\ home' = IF home.selection[id] = Null THEN home
             ELSE [home EXCEPT !.pasting =
                     Append(@, [id |-> id, sel |-> home.selection[id], tables |-> home.tables])]
  /\ last' = Did("BlockPasteClick")
  /\ UNCHANGED clipboard

\* onPaste from the resolution of readText on: onChange is the updateTable of
\* the render in which the button was clicked
BlockPasteDone(i, ok) ==
  /\ i \in 1..Len(home.pasting)
  /\ LET p == home.pasting[i]
         rest == [j \in 1..(Len(home.pasting) - 1) |->
                    IF j < i THEN home.pasting[j] ELSE home.pasting[j + 1]]
     IN  home' = IF ok /\ clipboard # <<>>
                 THEN [home EXCEPT
                         !.pasting = rest,
                         !.tables = updateTable(p.tables, p.id,
                                      PasteInto(TableOf(p.tables, p.id), p.sel, clipboard))]
                 ELSE [home EXCEPT !.pasting = rest]
  /\ last' = IF ok /\ clipboard # <<>> THEN Emit("BlockPasteDone") ELSE Did("BlockPasteDone")
  /\ UNCHANGED clipboard

\* drag handle onPointerDown in the block of table id
BlockDragDown(id, p) ==
  /\ id \in Ids(home.tables)
  /\ Len(home.listeners) < MaxListeners
  /\ home' = [home EXCEPT
                !.dragStart[id] = [x |-> p[1], y |-> p[2],
                                   left |-> TableOf(home.tables, id).x,
                                   top |-> TableOf(home.tables, id).y],
                !.listeners = Append(@, [id |-> id, tables |-> home.tables])]
  /\ last' = Did("BlockDragDown")
  /\ UNCHANGED clipboard

\* the listener whose onChange is the last of a pointermove event, or 0:
\* every updateTable replaces the tables of the note
LastMoving(ls) ==
  IF \E i \in 1..Len(ls) : home.dragStart[ls[i].id] # Null
  THEN CHOOSE i \in 1..Len(ls) :
         /\ home.dragStart[ls[i].id] # Null
         /\ \A j \in (i + 1)..Len(ls) : home.dragStart[ls[j].id] = Null
  ELSE 0

\* a pointermove event on window
WindowPointerMove(p) ==
  /\ home' = IF LastMoving(home.listeners) = 0 THEN home
             ELSE LET l == home.listeners[LastMoving(home.listeners)]
                      start == home.dragStart[l.id]
                  IN  [home EXCEPT !.tables =
                         updateTable(l.tables, l.id,
                           moveTable(TableOf(l.tables, l.id),
                                     start.left + (p[1] - start.x),
                                     start.top + (p[2] - start.y)))]
  /\ last' = IF LastMoving(home.listeners) = 0 THEN Did("WindowPointerMove")
             ELSE Emit("WindowPointerMove")
  /\ UNCHANGED clipboard

\* a pointerup event on window: every registered onUp runs
WindowPointerUp ==
  /\ Len(home.listeners) > 0
  /\ home' = [home EXCEPT
                !.dragStart = [id \in DOMAIN home.dragStart |->
                                 IF \E i \in 1..Len(home.listeners) : home.listeners[i].id = id
                                 THEN Null ELSE home.dragStart[id]],
                !.listeners = <<>>]
  /\ last' = Did("WindowPointerUp")
  /\ UNCHANGED clipboard

\* cells pressed in SpecNote
NoteCells == {<<0, 0>>, <<1, 1>>}

\* the active note after the first addTableToActive, nothing selected
InitNote ==
  /\ home = [tables    |-> <<createTable>>,
             selection |-> [id \in {TableIds[i] : i \in 1..MaxTables} |-> Null],
             dragStart |-> [id \in {TableIds[i] : i \in 1..MaxTables} |-> Null],
             listeners |-> <<>>,
             pasting   |-> <<>>]
  /\ clipboard \in PasteTexts
  /\ table = createTable
  /\ selection = Null
  /\ pasting = <<>>
  /\ resizeStart = Null
  /\ dragStart = Null
  /\ listeners = <<>>
  /\ last = Did("init")
  /\ steps = 0

NextNote ==
  /\ steps < MaxNoteSteps
  /\ steps' = steps + 1
  /\ UNCHANGED <<table, selection, pasting, resizeStart, dragStart, listeners>>
  /\ \/ addTableToActive
     \/ \E i \in 1..MaxTables, rc \in NoteCells : BlockPress(TableIds[i], rc[1], rc[2])
     \/ \E i \in 1..MaxTables : BlockRemoveRow(TableIds[i])
     \/ \E i \in 1..MaxTables : BlockPasteClick(TableIds[i])
     \/ \E i \in 1..MaxPasting, ok \in BOOLEAN : BlockPasteDone(i, ok)
     \/ \E i \in 1..MaxTables, p \in Pointer : BlockDragDown(TableIds[i], p)
     \/ \E p \in Pointer : WindowPointerMove(p)
     \/ WindowPointerUp

SpecNote == InitNote /\ [][NextNote]_vars

\* ================================================================ claims
\* the cells a cell at (r,c) claims through its spans
SpanRect(t, r, c) ==
  Rect(r, r + At(t, r, c).rowSpan - 1, c, c + At(t, r, c).colSpan - 1)

\* the coordinates of the rendered (non-hidden) cells
Roots(t) == {p \in (0..(NumRows(t) - 1)) \X (0..(NumCols(t) - 1)) : Rendered(t, p[1], p[2])}

\* C1 (as claimed): merge consistency. For every non-hidden cell, every other
\* cell of its span rectangle exists in the grid and is hidden.
C1_MergeConsistency ==
  \A p \in Roots(table) :
    \A q \in SpanRect(table, p[1], p[2]) \ {p} :
      InGrid(table, q[1], q[2]) /\ At(table, q[1], q[2]).hidden

\* C2 (as claimed): the span rectangles of two distinct non-hidden cells are
\* disjoint.
C2_NoOverlap ==
  \A p, q \in Roots(table) :
    p # q => SpanRect(table, p[1], p[2]) \cap SpanRect(table, q[1], q[2]) = {}

\* C3 (as claimed): no table operation throws.
C3_NoThrow == ~last.threw

\* C4: grid rectangularity. cells has one row per row height and every row
\* has one cell per column width.
C4_Rectangular ==
  /\ Len(table.cells) = Len(table.rowHeights)
  /\ \A r \in 1..Len(table.cells) : Len(table.cells[r]) = Len(table.colWidths)

\* C4 witness: a column was added to a grid that has lost rows
C4_Witness == last.op = "addCol" /\ NumRows(table) < InitRows /\ NumCols(table) = InitCols

\* C5: minimum shape. The table always has at least 1 row and 1 column.
C5_MinShape ==
  /\ Len(table.cells) >= 1 /\ Len(table.rowHeights) >= 1
  /\ Len(table.colWidths) >= 1
  /\ \A r \in 1..Len(table.cells) : Len(table.cells[r]) >= 1

\* C5 witness: removeCol has just run and the grid is down to one column
C5_Witness == last.op = "removeCol" /\ NumCols(table) = 1

\* the selection is a multi-cell rectangle of unit, non-hidden cells of the grid
UnitRectSelected(t, s) ==
  /\ s # Null
  /\ ~(minRow(s) = maxRow(s) /\ minCol(s) = maxCol(s))
  /\ \A p \in Rect(minRow(s), maxRow(s), minCol(s), maxCol(s)) :
       /\ InGrid(t, p[1], p[2])
       /\ At(t, p[1], p[2]).rowSpan = 1 /\ At(t, p[1], p[2]).colSpan = 1
       /\ ~At(t, p[1], p[2]).hidden

\* C6 (as claimed): merge/split round trip. With a multi-cell rectangle of
\* unit, non-hidden cells selected (anchor at any corner), merge followed by
\* split leaves every cell of the rectangle as it was.
C6_MergeSplitRoundTrip ==
  UnitRectSelected(table, selection) =>
    \A p \in Rect(minRow(selection), maxRow(selection), minCol(selection), maxCol(selection)) :
      At(SplitResult(MergeResult(table, selection), selection), p[1], p[2])
        = At(table, p[1], p[2])

\* the roots whose merged region lies inside the grid, has more than one cell
\* and contains (r,c)
OwningRoots(t, r, c) ==
  {p \in Roots(t) :
     /\ <<r, c>> \in SpanRect(t, p[1], p[2])
     /\ Cardinality(SpanRect(t, p[1], p[2])) > 1
     /\ \A q \in SpanRect(t, p[1], p[2]) : InGrid(t, q[1], q[2])}

\* C7 (as claimed): split operates on the owning root of the anchor. When the
\* anchor lies in a merged region, split makes every cell of the region unit
\* and unhidden.
C7_SplitOwningRoot ==
  selection # Null =>
    \A p \in OwningRoots(table, selection.startRow, selection.startCol) :
      \A q \in SpanRect(table, p[1], p[2]) :
        LET cell == At(SplitResult(table, selection), q[1], q[2])
        IN  cell.rowSpan = 1 /\ cell.colSpan = 1 /\ ~cell.hidden

\* the selection is a rectangle of non-hidden cells of the grid
VisibleRectSelected(t, s) ==
  /\ s # Null
  /\ \A p \in Rect(minRow(s), maxRow(s), minCol(s), maxCol(s)) :
       InGrid(t, p[1], p[2]) /\ ~At(t, p[1], p[2]).hidden

\* the cell values of a table
Values(t) == [r \in 1..Len(t.cells) |-> [c \in 1..Len(t.cells[r]) |-> t.cells[r][c].value]]

\* C8 (as claimed): copy/paste round trip. With a rectangle of non-hidden
\* cells selected, pasting the text that copy produces for that selection,
\* with the same selection, leaves every cell value as it was.
C8_CopyPasteRoundTrip ==
  VisibleRectSelected(table, selection) =>
    Values(PasteResult(table, table, selection, CopyText(table, selection))) = Values(table)

\* C9 (as claimed): resize total floor. After a resize move the column widths
\* sum to at least 240 and the row heights to at least 120.
C9_ResizeTotalFloor ==
  last.op = "resizeMove" =>
    /\ Sum(table.colWidths) >= MinTableWidth
    /\ Sum(table.rowHeights) >= MinTableHeight

\* C10: resize element floor. In every reachable state, and so after every
\* resize move, every column width is at least 80 and every row height at
\* least 34.
C10_ResizeElementFloor ==
  /\ \A i \in 1..Len(table.colWidths) : table.colWidths[i] >= MinColWidth
  /\ \A j \in 1..Len(table.rowHeights) : table.rowHeights[j] >= MinRowHeight

\* C10 witness: a resize move has left a column and a row at their floors
C10_Witness ==
  /\ last.op = "resizeMove"
  /\ \E i \in 1..Len(table.colWidths) : table.colWidths[i] = MinColWidth
  /\ \E j \in 1..Len(table.rowHeights) : table.rowHeights[j] = MinRowHeight

\* C11: addRow adds exactly one row and appends the height 42, addCol adds
\* exactly one column and appends the width 120; every new cell is empty, unit
\* and visible; every cell, width and height there before is unchanged
C11_ShapeGrowth ==
  [][/\ last'.op = "addRow" =>
          /\ NumRows(table') = NumRows(table) + 1
          /\ Len(table'.cells) = Len(table.cells) + 1
          /\ table'.rowHeights = Append(table.rowHeights, 42)
          /\ table'.colWidths = table.colWidths
          /\ \A r \in 1..Len(table.cells) : table'.cells[r] = table.cells[r]
          /\ Len(table'.cells[Len(table'.cells)]) = NumCols(table)
          /\ \A c \in 1..NumCols(table) :
                table'.cells[Len(table'.cells)][c] =
                  [value |-> <<>>, rowSpan |-> 1, colSpan |-> 1, hidden |-> FALSE]
     /\ last'.op = "addCol" =>
          /\ NumCols(table') = NumCols(table) + 1
          /\ Len(table'.cells) = Len(table.cells)
          /\ table'.colWidths = Append(table.colWidths, 120)
          /\ table'.rowHeights = table.rowHeights
          /\ \A r \in 1..Len(table.cells) :
                /\ Len(table'.cells[r]) = Len(table.cells[r]) + 1
                /\ SubSeq(table'.cells[r], 1, Len(table.cells[r])) = table.cells[r]
                /\ table'.cells[r][Len(table'.cells[r])] =
                     [value |-> <<>>, rowSpan |-> 1, colSpan |-> 1, hidden |-> FALSE]]_vars

\* a column was added to a grid that holds a typed-in merged block and a row
\* added before
C11_Witness ==
  /\ last.op = "addCol"
  /\ NumRows(table) = ClipRows + 1
  /\ \E r \in 1..Len(table.cells) : \E c \in 1..Len(table.cells[r]) :
       table.cells[r][c].hidden /\ table.cells[r][c].value # <<>>

\* the rectangle of selection s holds a hidden cell of t
HiddenInRect(t, s) ==
  \E p \in Rect(minRow(s), maxRow(s), minCol(s), maxCol(s)) :
    InGrid(t, p[1], p[2]) /\ At(t, p[1], p[2]).hidden

\* the table, and the calls waiting to change it, are as before and onChange
\* was not called
NoOp == table' = table /\ pasting' = pasting /\ ~last'.emitted

\* C12: a merge of a single-cell selection or of a rectangle that holds a
\* hidden cell, a split at a unit anchor cell, removeRow on a one-row grid,
\* removeCol on a one-column grid, and merge, split, copy and paste without a
\* selection leave the table unchanged and do not call onChange
C12_InvalidNoOp ==
  [][/\ (/\ last'.op = "mergeSelected"
         /\ \/ selection = Null
            \/ minRow(selection) = maxRow(selection) /\ minCol(selection) = maxCol(selection)
            \/ HiddenInRect(table, selection)) => NoOp
     /\ (/\ last'.op = "splitSelected"
         /\ \/ selection = Null
            \/ /\ InGrid(table, selection.startRow, selection.startCol)
               /\ At(table, selection.startRow, selection.startCol).rowSpan = 1
               /\ At(table, selection.startRow, selection.startCol).colSpan = 1) => NoOp
     /\ (last'.op = "removeRow" /\ NumRows(table) = 1) => NoOp
     /\ (last'.op = "removeCol" /\ NumCols(table) = 1) => NoOp
     /\ (last'.op \in {"onCopy", "onPasteClick"} /\ selection = Null) => NoOp]_vars

\* mergeSelected has just returned on a multi-cell rectangle that holds a
\* hidden cell
C12_Witness ==
  /\ last.op = "mergeSelected"
  /\ ~last.emitted
  /\ selection # Null
  /\ ~(minRow(selection) = maxRow(selection) /\ minCol(selection) = maxCol(selection))
  /\ HiddenInRect(table, selection)

\* the rectangle of selection s has more than one cell, lies in the grid of t
\* and holds no hidden cell
MergeableRect(t, s) ==
  /\ s # Null
  /\ ~(minRow(s) = maxRow(s) /\ minCol(s) = maxCol(s))
  /\ \A p \in Rect(minRow(s), maxRow(s), minCol(s), maxCol(s)) : Rendered(t, p[1], p[2])

\* C13: a merge of a multi-cell rectangle without hidden cells sets the spans
\* of the top-left cell to the height and width of the rectangle, hides every
\* other cell of the rectangle, and changes nothing else: no value, no cell
\* outside the rectangle, no span of the cells it hides
C13_MergeEffect ==
  [][(last'.op = "mergeSelected" /\ MergeableRect(table, selection)) =>
       /\ last'.emitted
       /\ [table' EXCEPT !.cells = table.cells] = table
       /\ Len(table'.cells) = Len(table.cells)
       /\ \A r \in 1..Len(table.cells) :
            /\ Len(table'.cells[r]) = Len(table.cells[r])
            /\ \A c \in 1..Len(table.cells[r]) :
                 LET old == table.cells[r][c]
                     new == table'.cells[r][c]
                 IN  IF r - 1 = minRow(selection) /\ c - 1 = minCol(selection)
                     THEN new = [value |-> old.value,
                                 rowSpan |-> maxRow(selection) - minRow(selection) + 1,
                                 colSpan |-> maxCol(selection) - minCol(selection) + 1,
                                 hidden |-> FALSE]
                     ELSE IF /\ r - 1 >= minRow(selection) /\ r - 1 <= maxRow(selection)
                             /\ c - 1 >= minCol(selection) /\ c - 1 <= maxCol(selection)
                     THEN new = [value |-> old.value, rowSpan |-> old.rowSpan,
                                 colSpan |-> old.colSpan, hidden |-> TRUE]
                     ELSE new = old]_vars

\* a merge has just hidden a cell whose colSpan is not 1
C13_Witness ==
  /\ last.op = "mergeSelected"
  /\ last.emitted
  /\ \E r \in 1..Len(table.cells) : \E c \in 1..Len(table.cells[r]) :
       table.cells[r][c].hidden /\ table.cells[r][c].colSpan > 1

\* the selections that have the rectangle of s: one per anchor corner
Corners(s) ==
  LET rows == {<<Min(s.startRow, s.endRow), Max(s.startRow, s.endRow)>>,
               <<Max(s.startRow, s.endRow), Min(s.startRow, s.endRow)>>}
      cols == {<<Min(s.startCol, s.endCol), Max(s.startCol, s.endCol)>>,
               <<Max(s.startCol, s.endCol), Min(s.startCol, s.endCol)>>}
  IN  {[startRow |-> r[1], endRow |-> r[2], startCol |-> c[1], endCol |-> c[2]] :
         r \in rows, c \in cols}

\* C14: the selections with the same rectangle and a different anchor corner
\* give the same merge (table passed to onChange, early return or throw) and
\* the same copy text
C14_OrderIndependent ==
  selection # Null =>
    LET merged == MergeResult(table, selection)
        emits == MergeEmits(table, selection)
        throws == MergeThrows(table, selection)
        copyThrows == CopyThrows(table, selection)
        text == IF copyThrows THEN <<>> ELSE CopyText(table, selection)
    IN  \A s \in Corners(selection) \ {selection} :
          /\ MergeResult(table, s) = merged
          /\ MergeEmits(table, s) = emits
          /\ MergeThrows(table, s) = throws
          /\ CopyThrows(table, s) = copyThrows
          /\ ~copyThrows => CopyText(table, s) = text

\* a rectangle dragged from its bottom-right corner to its top-left corner
\* has just been merged
C14_Witness ==
  /\ last.op = "mergeSelected"
  /\ last.emitted
  /\ selection.startRow > selection.endRow
  /\ selection.startCol > selection.endCol

\* the fields of a pasted text: its lines, each split on tabs
Fields(text) == [i \in 1..Len(Split(text, "\n")) |-> Split(Split(text, "\n")[i], "\t")]

\* new is old with the fields of text written from the anchor (aRow, aCol) on,
\* clipped to the rendered cells of the grid
Clipped(new, old, aRow, aCol, text) ==
  /\ [new EXCEPT !.cells = old.cells] = old
  /\ Len(new.cells) = Len(old.cells)
  /\ \A r \in 1..Len(old.cells) :
       /\ Len(new.cells[r]) = Len(old.cells[r])
       /\ \A c \in 1..Len(old.cells[r]) :
            /\ new.cells[r][c].rowSpan = old.cells[r][c].rowSpan
            /\ new.cells[r][c].colSpan = old.cells[r][c].colSpan
            /\ new.cells[r][c].hidden = old.cells[r][c].hidden
            /\ new.cells[r][c].value =
                 IF \E rOff \in 0..(Len(Fields(text)) - 1) :
                      /\ r - 1 = aRow + rOff
                      /\ c - 1 - aCol \in 0..(Len(Fields(text)[rOff + 1]) - 1)
                      /\ ~old.cells[r][c].hidden
                 THEN Fields(text)[r - aRow][c - aCol]
                 ELSE old.cells[r][c].value

\* C15: a paste that calls onChange passes the table it was started on with
\* the field at (rOff, cOff) written to cell (anchorRow + rOff, anchorCol + cOff)
\* iff that cell is in the grid and not hidden; every other value, every span
\* and hidden flag and the numbers of rows and columns are as they were
C15_PasteClipping ==
  [][(last'.op = "onPasteDone" /\ last'.emitted) =>
       \E i \in 1..Len(pasting) :
         Clipped(table', pasting[i].tbl, pasting[i].sel.startRow,
                 pasting[i].sel.startCol, clipboard)]_vars

\* two lines of two fields have just been pasted at (0,0) of a grid of one
\* row whose second cell is hidden
C15_Witness ==
  /\ last.op = "onPasteDone"
  /\ last.emitted
  /\ NumRows(table) = 1
  /\ table.cells[1][1].value = <<"b">>
  /\ table.cells[1][2].hidden
  /\ table.cells[1][2].value = <<"a">>

\* C16: a paste writes from the top-left cell of the normalized selection
\* rectangle on: the first field goes to (min(startRow, endRow),
\* min(startCol, endCol))
C16_PasteAtNormalized ==
  [][(last'.op = "onPasteDone" /\ last'.emitted) =>
       \E i \in 1..Len(pasting) :
         Clipped(table', pasting[i].tbl, minRow(pasting[i].sel),
                 minCol(pasting[i].sel), clipboard)]_vars

\* what cell (r,c) of t contributes to a copy
Field(t, r, c) == IF At(t, r, c).hidden THEN <<>> ELSE At(t, r, c).value

RECURSIVE LineText(_, _, _, _)
\* the fields of columns c0..c1 of row r, a tab between two neighbours
LineText(t, r, c0, c1) ==
  IF c1 = c0 THEN Field(t, r, c0)
  ELSE LineText(t, r, c0, c1 - 1) \o <<"\t">> \o Field(t, r, c1)

RECURSIVE BlockText(_, _, _, _, _)
\* the lines of rows r0..r1, a newline between two neighbours
BlockText(t, r0, r1, c0, c1) ==
  IF r1 = r0 THEN LineText(t, r0, c0, c1)
  ELSE BlockText(t, r0, r1 - 1, c0, c1) \o <<"\n">> \o LineText(t, r1, c0, c1)

\* C17: the text a copy writes to the clipboard has one line per selected
\* row, joined by newlines, and in each line one field per selected column,
\* joined by tabs; the field of a cell is its value, or the empty string when
\* the cell is hidden; a copy changes neither the table nor the selection
C17_CopyOutput ==
  [][last'.op = "onCopy" =>
       /\ table' = table
       /\ selection' = selection
       /\ ~last'.emitted
       /\ (onCopy(TRUE) /\ selection # Null /\ ~CopyThrows(table, selection)) =>
            clipboard' = BlockText(table, minRow(selection), maxRow(selection),
                                   minCol(selection), maxCol(selection))]_vars

\* the whole grid has just been copied, its first row a merged block whose
\* hidden cell holds "a": the hidden cell reads as empty
C17_Witness ==
  /\ last.op = "onCopy"
  /\ clipboard = <<"a", "\t", "\n", "\t">>
  /\ table.cells[1][2].hidden
  /\ table.cells[1][2].value = <<"a">>

\* C18: a pointermove of a drag gesture passes to onChange a table whose x is
\* max(0, left + (clientX - x)) and whose y is max(0, top + (clientY - y)),
\* with left, top, x, y the values recorded at pointerdown; x and y are never
\* negative
C18_DragPosition ==
  /\ [](table.x >= 0 /\ table.y >= 0)
  /\ [][last'.op = "dragMove" =>
          \E p \in Pointer :
            /\ pointerMove(p)
            /\ table'.x = IF dragStart.left + (p[1] - dragStart.x) >= 0
                          THEN dragStart.left + (p[1] - dragStart.x) ELSE 0
            /\ table'.y = IF dragStart.top + (p[2] - dragStart.y) >= 0
                          THEN dragStart.top + (p[2] - dragStart.y) ELSE 0]_vars

\* the block was dragged 300 to the left and 100 up from (120, 120): x is held
\* at 0 and y is 20
C18_Witness == last.op = "dragMove" /\ table.x = 0 /\ table.y = 20

\* C19: a pointerup clears both gesture records and removes every pointermove
\* and pointerup listener of the block, and a pointermove that comes with no
\* listener registered calls no onChange
C19_GestureRelease ==
  /\ [][last'.op = "pointerUp" =>
          dragStart' = Null /\ resizeStart' = Null /\ listeners' = <<>>]_vars
  /\ [][(last.op \in {"pointerUp", "pointerMove"} /\ listeners = <<>>
            /\ last'.op \in {"pointerMove", "dragMove", "resizeMove"}) =>
          table' = table /\ ~last'.emitted]_vars

\* the pointer has moved after the release of a gesture that had moved or
\* resized the block
C19_Witness ==
  /\ last.op = "pointerMove"
  /\ ~last.emitted
  /\ listeners = <<>>
  /\ dragStart = Null
  /\ resizeStart = Null
  /\ table # createTable

\* C20: the listeners of at most one gesture are registered at a time, and
\* the drag record and the resize record are never both set
C20_OneGesture ==
  /\ Len(listeners) <= 1
  /\ ~(dragStart # Null /\ resizeStart # Null)

\* C21: a press on a cell sets the selection to that single cell, whatever
\* the selection was; a pointer-enter changes the selection only when there is
\* one and exactly the primary button is held, and then sets endRow and endCol
\* to the entered cell; startRow and startCol change on presses only
C21_SelectionMachine ==
  [][/\ last'.op = "Press" =>
          \E r \in 0..(NumRows(table) - 1), c \in 0..(NumCols(table) - 1) :
            /\ Rendered(table, r, c)
            /\ selection' = [startRow |-> r, startCol |-> c, endRow |-> r, endCol |-> c]
     /\ last'.op = "Enter" =>
          \/ selection' = selection
          \/ /\ selection # Null
             /\ \E r \in 0..(NumRows(table) - 1), c \in 0..(NumCols(table) - 1) :
                  /\ Rendered(table, r, c)
                  /\ selection' = [startRow |-> selection.startRow,
                                   startCol |-> selection.startCol,
                                   endRow |-> r, endCol |-> c]
             /\ \A b \in Buttons \ {1} :
                  \A r \in 0..(MaxRows - 1), c \in 0..(MaxCols - 1) : ~Enter(r, c, b)
     /\ last'.op # "Press" =>
          IF selection = Null THEN selection' = Null
          ELSE /\ selection' # Null
               /\ selection'.startRow = selection.startRow
               /\ selection'.startCol = selection.startCol]_vars

\* the pointer has entered (0,0) with the primary button held after a press
\* on (1,1)
C21_Witness ==
  /\ last.op = "Enter"
  /\ selection = [startRow |-> 1, startCol |-> 1, endRow |-> 0, endCol |-> 0]

\* a / b rounded to the nearest integer, halves up
HalfUp(a, b) == (2 * a + b) \div (2 * b)

\* n is an integer nearest to a / b
Nearest(n, a, b) == 2 * b * n - 2 * a >= 0 - b /\ 2 * b * n - 2 * a <= b

\* size is the floor lo or more, and an integer nearest to a / b when that
\* is more
FlooredNearest(size, lo, a, b) ==
  \E n \in {a \div b, a \div b + 1} :
    Nearest(n, a, b) /\ size = IF n >= lo THEN n ELSE lo

\* C22 (as written): a pointermove of a resize gesture passes to onChange
\* colWidths[i] = max(80, round(w_i * max(240, W0 + dx) / W0)) and
\* rowHeights[j] = max(34, round(h_j * max(120, H0 + dy) / H0)), with w_i, h_j
\* the widths and heights at pointerdown, W0 and H0 their sums and dx, dy the
\* displacement of the pointer since pointerdown
C22_ResizeFromSnapshot ==
  [][last'.op = "resizeMove" =>
       \E p \in Pointer :
         LET start == listeners[LastEmitting(listeners)].tbl
             W0 == resizeStart.width
             H0 == resizeStart.height
             W == IF W0 + (p[1] - resizeStart.x) >= 240
                  THEN W0 + (p[1] - resizeStart.x) ELSE 240
             H == IF H0 + (p[2] - resizeStart.y) >= 120
                  THEN H0 + (p[2] - resizeStart.y) ELSE 120
         IN  /\ pointerMove(p)
             /\ W0 = Sum(start.colWidths)
             /\ H0 = Sum(start.rowHeights)
             /\ table'.colWidths =
                  [i \in 1..Len(start.colWidths) |->
                     IF HalfUp(start.colWidths[i] * W, W0) >= 80
                     THEN HalfUp(start.colWidths[i] * W, W0) ELSE 80]
             /\ table'.rowHeights =
                  [j \in 1..Len(start.rowHeights) |->
                     IF HalfUp(start.rowHeights[j] * H, H0) >= 34
                     THEN HalfUp(start.rowHeights[j] * H, H0) ELSE 34]]_vars

\* C22 (amended): a pointermove of a resize gesture passes to onChange
\* colWidths[i] = max(80, n_i) and rowHeights[j] = max(34, m_j), with n_i an
\* integer nearest to w_i * max(240, W0 + dx) / W0 and m_j an integer nearest
\* to h_j * max(120, H0 + dy) / H0 (at an exact half either neighbour), w_i,
\* h_j the widths and heights at pointerdown, W0 and H0 their sums and dx, dy
\* the displacement of the pointer since pointerdown
C22_ResizeNearest ==
  [][last'.op = "resizeMove" =>
       \E p \in Pointer :
         LET start == listeners[LastEmitting(listeners)].tbl
             W0 == resizeStart.width
             H0 == resizeStart.height
             W == IF W0 + (p[1] - resizeStart.x) >= 240
                  THEN W0 + (p[1] - resizeStart.x) ELSE 240
             H == IF H0 + (p[2] - resizeStart.y) >= 120
                  THEN H0 + (p[2] - resizeStart.y) ELSE 120
         IN  /\ pointerMove(p)
             /\ W0 = Sum(start.colWidths)
             /\ H0 = Sum(start.rowHeights)
             /\ Len(table'.colWidths) = Len(start.colWidths)
             /\ Len(table'.rowHeights) = Len(start.rowHeights)
             /\ \A i \in 1..Len(start.colWidths) :
                  FlooredNearest(table'.colWidths[i], 80, start.colWidths[i] * W, W0)
             /\ \A j \in 1..Len(start.rowHeights) :
                  FlooredNearest(table'.rowHeights[j], 34, start.rowHeights[j] * H, H0)]_vars

\* the second pointermove of a resize gesture on the default table, 14 to the
\* right of the pointerdown: 120 * 494 / 480 is 123.5 and the columns are 123
C22_Witness ==
  /\ last.op = "resizeMove"
  /\ resizeStart # Null
  /\ resizeStart.width = 480
  /\ table.colWidths = <<123, 123, 123, 123>>
  /\ Len(listeners) = 1
  /\ listeners[1].tbl.colWidths = <<120, 120, 120, 120>>
  /\ steps >= 3

\* the four fields of the cell at (r,c) named by the frame of removeRow and
\* removeCol
CellFrame(t, r, c) ==
  <<At(t, r, c).value, At(t, r, c).rowSpan, At(t, r, c).colSpan, At(t, r, c).hidden>>

\* C23: removeRow on a grid of more than one row drops exactly the last row
\* and the last height, and removeCol on a grid of more than one column
\* exactly the last cell of every row and the last width; value, rowSpan,
\* colSpan and hidden of every remaining cell are unchanged, also when the
\* removed row or column belonged to a merged region
C23_RemoveFrame ==
  [][/\ (last'.op = "removeRow" /\ NumRows(table) > 1) =>
          /\ Len(table'.cells) = Len(table.cells) - 1
          /\ \A r \in 0..(Len(table'.cells) - 1) :
               /\ Len(table'.cells[r + 1]) = Len(table.cells[r + 1])
               /\ \A c \in 0..(Len(table.cells[r + 1]) - 1) :
                    CellFrame(table', r, c) = CellFrame(table, r, c)
          /\ table'.rowHeights = SubSeq(table.rowHeights, 1, Len(table.rowHeights) - 1)
          /\ table'.colWidths = table.colWidths
     /\ (last'.op = "removeCol" /\ NumCols(table) > 1) =>
          /\ Len(table'.cells) = Len(table.cells)
          /\ \A r \in 0..(Len(table.cells) - 1) :
               /\ Len(table'.cells[r + 1]) = Len(table.cells[r + 1]) - 1
               /\ \A c \in 0..(Len(table'.cells[r + 1]) - 1) :
                    CellFrame(table', r, c) = CellFrame(table, r, c)
          /\ table'.colWidths = SubSeq(table.colWidths, 1, Len(table.colWidths) - 1)
          /\ table'.rowHeights = table.rowHeights]_vars

\* removeRow has dropped the second row of a region merged over two rows:
\* the root in the row that is left still spans two rows
C23_Witness ==
  /\ last.op = "removeRow"
  /\ last.emitted
  /\ NumRows(table) = 1
  /\ \E c \in 0..(NumCols(table) - 1) :
       Rendered(table, 0, c) /\ At(table, 0, c).rowSpan = 2

\* rowSpan, colSpan and hidden of every cell of t, row by row
SpanFrame(t) ==
  [r \in 1..Len(t.cells) |->
     [c \in 1..Len(t.cells[r]) |->
        <<t.cells[r][c].rowSpan, t.cells[r][c].colSpan, t.cells[r][c].hidden>>]]

\* C24 (as claimed): field frame of every table passed to onChange. The id
\* never changes; a drag move changes x and y only; a resize move changes
\* colWidths and rowHeights only; merge, split, addRow, addCol, removeRow,
\* removeCol, paste and cell edits leave x and y; cell edits and paste leave
\* every rowSpan, colSpan and hidden flag.
C24_FieldFrame ==
  [][last'.emitted =>
       /\ table'.id = table.id
       /\ last'.op = "dragMove" =>
            table' = [table EXCEPT !.x = table'.x, !.y = table'.y]
       /\ last'.op = "resizeMove" =>
            table' = [table EXCEPT !.colWidths = table'.colWidths,
                                   !.rowHeights = table'.rowHeights]
       /\ last'.op \notin {"dragMove", "resizeMove"} =>
            table'.x = table.x /\ table'.y = table.y
       /\ last'.op \in {"setCellValue", "onPasteDone"} =>
            SpanFrame(table') = SpanFrame(table)]_vars

\* C25 (as claimed): every hidden cell belongs to a merged region. Each cell
\* with hidden = true lies inside the span rectangle of some non-hidden cell
\* other than itself.
C25_HiddenHasRoot ==
  \A r \in 0..(NumRows(table) - 1) :
    \A c \in 0..(Len(table.cells[r + 1]) - 1) :
      At(table, r, c).hidden =>
        \E p \in Roots(table) : p # <<r, c>> /\ <<r, c>> \in SpanRect(table, p[1], p[2])

\* C26 (as claimed): the selection refers to cells of the current grid.
\* Whenever there is a selection, startRow and endRow are row indices of the
\* grid and startCol and endCol column indices.
C26_SelectionInGrid ==
  selection # Null =>
    /\ {selection.startRow, selection.endRow} \subseteq 0..(NumRows(table) - 1)
    /\ {selection.startCol, selection.endCol} \subseteq 0..(NumCols(table) - 1)

\* C27 (as claimed): no lost update across an asynchronous paste. The table a
\* paste emits when its clipboard read completes is the paste applied to the
\* table current at completion, so it contains every edit emitted since the
\* click that started the paste.
C27_NoLostUpdate ==
  [][(last'.op = "onPasteDone" /\ last'.emitted) =>
       \E i \in 1..Len(pasting) :
         table' = PasteInto(table, pasting[i].sel, clipboard)]_vars

\* C28 (as claimed): an onChange of one table block replaces only that table
\* in the active note. Every step in which a block calls onChange leaves the
\* list of table ids as it is and changes the entry of at most one table.
C28_OnlyOwnTable ==
  [][(last'.emitted /\ home # Null) =>
       /\ Len(home'.tables) = Len(home.tables)
       /\ \A i \in 1..Len(home.tables) : home'.tables[i].id = home.tables[i].id
       /\ \E id \in Ids(home.tables) :
            \A i \in 1..Len(home.tables) :
              home.tables[i].id # id => home'.tables[i] = home.tables[i]]_vars

====
